---- MODULE Spec2Model ----
(***************************************************************************)
(* Session and token-lifecycle management of the book-club platform.       *)
(*                                                                         *)
(* Client: the response-error interceptor installed by                     *)
(* createDefaultHttpClient (frontend/app/src/global/api/http-client.ts)    *)
(* with its closure variables isRefreshing / refreshPromise and the        *)
(* HTTPClient access token.  The browser is single threaded: a network     *)
(* response is a task, the continuations of awaited promises are           *)
(* microtasks, and all of them run before the next task.                   *)
(*                                                                         *)
(* Server: the refresh-credential rotation engine.  Its code is not part   *)
(* of the sources (only the refresh_tokens table of models.md is), so it   *)
(* is modelled from the design document.                                   *)
(*                                                                         *)
(* A call that has settled keeps its outcome and the number of times it    *)
(* was sent; its config (header, awaited promise) is garbage by then.      *)
(***************************************************************************)
EXTENDS Integers, Sequences, FiniteSets, TLC

\* ---------------------------------------------------------------- bounds
NReq == 2          \* domain requests the application issues
MaxRefresh == 3    \* /api/auth/refresh calls the transport may issue
MaxCred == 3       \* rows the refresh_tokens table may hold
MaxWorkers == 2    \* refresh requests the server may be handling at once

Req == 1..NReq
RefreshIds == (NReq + 1)..(NReq + MaxRefresh)
LoginCall == NReq + MaxRefresh + 1
Calls == 1..LoginCall
Creds == 1..MaxCred
Toks == 1..(MaxRefresh + MaxCred)
Workers == 1..MaxWorkers

\* ------------------------------------------------------------ constants
Unauthorized == 401    \* the status the interceptor reacts to
NoResponse == 0        \* ApiError.fromAxiosError: error.response?.status || 0

VARIABLES
  accessToken,     \* HTTPClient.accessToken / defaults Authorization; 0 = null
  isRefreshing,    \* closure variable of createDefaultHttpClient
  refreshPromise,  \* closure variable: 0 = null, else the refresh call
  call,            \* the calls made through the axios instance
  reactions,       \* per refresh call: the awaiters of its promise, in order
  microtasks,      \* continuations ready to run, in order
  events,          \* per refresh call: session-expired events dispatched
  redirected,      \* window.location.href = '/login' was assigned
  origin,          \* per refresh call: the request and the header of the 401
  wire,            \* per refresh call: credential sent, server's answer
  validTokens,     \* server: access tokens issued and not expired
  store,           \* server: refresh_tokens rows
  cookie,          \* browser cookie jar: refresh credential, 0 = none
  compromised,     \* server: credentials answered with SessionCompromised
  auth,            \* the Redux auth state (AuthState)
  storage,         \* sessionStorage[config.tokenStorageKey], 0 = absent
  thunk,           \* the loginAsync / registerAsync thunk in flight
  engine,          \* server: the refresh requests being handled
  fetch,           \* the fetchCurrentUserAsync thunk in flight
  loggedOut        \* history: logout was dispatched and no login, register,
                   \* fetchCurrentUser, setToken or restoreSession since

appVars == <<auth, storage, thunk, fetch, loggedOut>>

vars == <<accessToken, isRefreshing, refreshPromise, call, reactions,
          microtasks, events, redirected, origin, wire, validTokens, store,
          cookie, compromised, auth, storage, thunk, engine, fetch,
          loggedOut>>

serverVars == <<validTokens, store, cookie, compromised>>

transportVars == <<accessToken, isRefreshing, refreshPromise, call,
                   reactions, microtasks, events, redirected, origin, wire>>

\* ------------------------------------------------------------- helpers
Url(c) == IF c = LoginCall THEN "/api/auth/login"
          ELSE IF c \in Req THEN "/api/users/me" ELSE "/api/auth/refresh"

\* originalRequest.url?.includes('/auth/refresh')
IsRefreshUrl(url) == url = "/api/auth/refresh"

nRefresh == Cardinality({i \in RefreshIds : call[i].st # "new"})

nCreds == Cardinality({c \in Creds : store[c].exists})

\* the access token the server issues in answer to refresh call i
TokenOf(i) == i - NReq

\* the access token the server issues together with login credential n
LoginToken(n) == MaxRefresh + n

NewCall == [st |-> "new", hdr |-> 0, sends |-> 0, role |-> "none",
            waitOn |-> 0, err |-> "none", status |-> -1]

NoWire == [cred |-> 0, srv |-> "none", newCred |-> 0]

NoOrigin == [by |-> 0, hdr |-> -1]

NoRow == [exists |-> FALSE, revoked |-> FALSE, expired |-> FALSE,
          successor |-> 0]

\* initialState of the auth slice when sessionStorage holds no token
InitialAuth == [user |-> 0, token |-> 0, isAuthenticated |-> FALSE,
                isLoading |-> FALSE, error |-> FALSE]

NoThunk == [pc |-> "idle", good |-> FALSE, req |-> 0, tok |-> 0]

NoFetch == [pc |-> "idle", req |-> 0]

Idle == [pc |-> "idle", cred |-> 0, result |-> "none"]

Init ==
  /\ accessToken = 0
  /\ isRefreshing = FALSE
  /\ refreshPromise = 0
  /\ call = [c \in Calls |-> NewCall]
  /\ reactions = [i \in RefreshIds |-> <<>>]
  /\ microtasks = <<>>
  /\ events = [i \in RefreshIds |-> 0]
  /\ redirected = FALSE
  /\ origin = [i \in RefreshIds |-> NoOrigin]
  /\ wire = [i \in RefreshIds |-> NoWire]
  /\ validTokens = {}
  /\ store = [c \in Creds |-> NoRow]
  /\ cookie = 0
  /\ compromised = {}
  /\ auth = InitialAuth
  /\ storage = 0
  /\ thunk = NoThunk
  /\ engine = [w \in Workers |-> Idle]
  /\ fetch = NoFetch
  /\ loggedOut = FALSE

\* ------------------------------------------- server: RefreshTokenStore
\* findActive: the row is returned whatever its revoked flag; NotFound for
\* an unknown identifier (or no cookie at all).
FindActive(s, id) == id # 0 /\ s[id].exists

RECURSIVE ChainClosure(_, _)
ChainClosure(s, set) ==
  LET more == {d \in Creds : /\ s[d].exists
                             /\ \E c \in set : \/ s[c].successor = d
                                               \/ s[d].successor = c}
  IN IF more \subseteq set THEN set ELSE ChainClosure(s, set \cup more)

\* the credentials linked to id by successor / predecessor references
Chain(s, id) == ChainClosure(s, {id})

Create(s, new) ==
  [s EXCEPT ![new] = [exists |-> TRUE, revoked |-> FALSE, expired |-> FALSE,
                      successor |-> 0]]

\* rotate without the update of the revoked flag of the old row
RotateLeavesOld(s, old, new) ==
  [Create(s, new) EXCEPT ![old].successor = new]

\* rotate without the successor reference
RotateNoLink(s, old, new) ==
  [Create(s, new) EXCEPT ![old].revoked = TRUE]

\* rotate: old revoked, old.successor = new, new row created, in one step
Rotate(s, old, new) ==
  [Create(s, new) EXCEPT ![old].revoked = TRUE, ![old].successor = new]

\* a revocation that stops at the credential presented
RevokeOnlyPresented(s, id) == [s EXCEPT ![id].revoked = TRUE]

RevokeChain(s, id) ==
  [d \in Creds |-> IF d \in Chain(s, id)
                   THEN [s[d] EXCEPT !.revoked = TRUE] ELSE s[d]]

\* --------------------------------------- server: RefreshRotationEngine
RefreshOutcome(s, id) ==
  IF ~FindActive(s, id) THEN "SessionInvalid"
  ELSE IF s[id].revoked THEN "SessionCompromised"
  ELSE IF s[id].expired THEN "SessionExpired"
  ELSE "ok"

\* an engine that revokes the credential it refuses as expired
RefreshStoreRevokesExpired(s, id, new) ==
  LET o == RefreshOutcome(s, id)
  IN IF o = "SessionCompromised" THEN RevokeChain(s, id)
     ELSE IF o = "ok" THEN Rotate(s, id, new)
     ELSE IF o = "SessionExpired" THEN [s EXCEPT ![id].revoked = TRUE]
     ELSE s

RefreshStore(s, id, new) ==
  LET o == RefreshOutcome(s, id)
  IN IF o = "SessionCompromised" THEN RevokeChain(s, id)
     ELSE IF o = "ok" THEN Rotate(s, id, new)
     ELSE s

Refused == {"SessionInvalid", "SessionCompromised", "SessionExpired"}

\* ------------------------------------------------ client: the transport
\* axios merges the instance defaults with the config of the call, and the
\* config of the call wins.  error.config (originalRequest) is the merged
\* config of the failed call, so it already holds the Authorization header
\* that was sent; a call made without a header in its config takes the
\* header setAccessToken put in defaults.headers.common.
MergedAuth(cfgHdr, defaultHdr) == IF cfgHdr # 0 THEN cfgHdr ELSE defaultHdr

\* an interceptor that treats every failed response like a 401
BranchAnyFailure(status, refreshUrl, refreshing) ==
  IF ~refreshUrl
  THEN (IF refreshing THEN "wait" ELSE "start")
  ELSE "passthrough"

\* the interceptor without the isRefreshing test
BranchNoSingleFlight(status, refreshUrl, refreshing) ==
  IF status = Unauthorized /\ ~refreshUrl THEN "start" ELSE "passthrough"

\* the interceptor without the test of the url of the failed call
BranchNoUrlCheck(status, refreshUrl, refreshing) ==
  IF status = Unauthorized
  THEN (IF refreshing THEN "wait" ELSE "start")
  ELSE "passthrough"

\* the 401 condition and the isRefreshing test of the interceptor
Branch(status, refreshUrl, refreshing) ==
  IF status = Unauthorized /\ ~refreshUrl
  THEN (IF refreshing THEN "wait" ELSE "start")
  ELSE "passthrough"

\* a waiter that retries whatever the outcome of the refresh
ContinuationWaiterRetries(role, outcome) ==
  IF role = "initiator"
  THEN (IF outcome = "fulfilled" THEN "retry" ELSE "teardown")
  ELSE "retry"

\* an initiator that retries whatever the outcome of the refresh
ContinuationInitiatorRetries(role, outcome) ==
  IF role = "initiator"
  THEN "retry"
  ELSE (IF outcome = "fulfilled" THEN "retry" ELSE "notify")

\* what the code after `await refreshPromise` does
Continuation(role, outcome) ==
  IF role = "initiator"
  THEN (IF outcome = "fulfilled" THEN "retry" ELSE "teardown")
  ELSE (IF outcome = "fulfilled" THEN "retry" ELSE "notify")

\* axiosInstance.request(config): the call goes out on the network
Sent(rec, defaultHdr) ==
  [rec EXCEPT !.st = "sent", !.hdr = MergedAuth(rec.hdr, defaultHdr),
              !.sends = rec.sends + 1, !.role = "none", !.waitOn = 0]

\* the promise of a call settles: resolved with the response, or rejected
\* with the ApiError built from the failed response
Settle(rec, st, status) ==
  [NewCall EXCEPT !.st = st, !.sends = rec.sends, !.status = status,
                  !.err = IF st = "rejected" THEN "ApiError" ELSE "none"]

\* the reactions of a settled refresh promise become microtasks
Awaiters(c) == IF c \in RefreshIds THEN reactions[c] ELSE <<>>

Released(c) ==
  IF c \in RefreshIds THEN [reactions EXCEPT ![c] = <<>>] ELSE reactions

\* a domain service issues a request through the transport (the requests
\* are interchangeable: they are numbered in the order they are issued)
Send(r) ==
  /\ microtasks = <<>>
  /\ call[r].st = "new"
  /\ \A q \in Req : q < r => call[q].st # "new"
  /\ call' = [call EXCEPT ![r] = Sent(call[r], accessToken)]
  /\ UNCHANGED <<accessToken, isRefreshing, refreshPromise, reactions,
                 microtasks, events, redirected, origin, wire>>
  /\ UNCHANGED serverVars
  /\ UNCHANGED <<appVars, engine>>

\* 2xx on a domain request: (response) => response
ReceiveOk(r) ==
  /\ microtasks = <<>>
  /\ call[r].st = "sent"
  /\ call[r].hdr \in validTokens
  /\ call' = [call EXCEPT ![r] = Settle(call[r], "resolved", -1)]
  /\ UNCHANGED <<accessToken, isRefreshing, refreshPromise, reactions,
                 microtasks, events, redirected, origin, wire>>
  /\ UNCHANGED serverVars
  /\ UNCHANGED <<appVars, engine>>

\* the response-error interceptor, lines 247-312, up to its first await;
\* w is the state of the network once the response has been taken off it
OnResponseError(c, status, w) ==
  LET b == Branch(status, IsRefreshUrl(Url(c)), isRefreshing)
      n == NReq + nRefresh + 1
  IN
  \/ /\ b = "passthrough"
     /\ call' = [call EXCEPT ![c] = Settle(call[c], "rejected", status)]
     /\ microtasks' = microtasks \o Awaiters(c)
     /\ reactions' = Released(c)
     /\ wire' = w
     /\ UNCHANGED <<accessToken, isRefreshing, refreshPromise, events,
                    redirected, origin>>
  \/ /\ b = "wait"
     /\ call' = [call EXCEPT ![c].st = "awaitRefresh", ![c].role = "waiter",
                             ![c].waitOn = refreshPromise,
                             ![c].status = status]
     /\ IF refreshPromise = 0
        THEN /\ microtasks' = Append(microtasks, c)
             /\ UNCHANGED reactions
        ELSE /\ reactions' = [reactions EXCEPT ![refreshPromise] =
                                Append(reactions[refreshPromise], c)]
             /\ UNCHANGED microtasks
     /\ wire' = w
     /\ UNCHANGED <<accessToken, isRefreshing, refreshPromise, events,
                    redirected, origin>>
  \/ /\ b = "start"
     /\ nRefresh < MaxRefresh
     /\ isRefreshing' = TRUE
     /\ refreshPromise' = n
     /\ call' = [call EXCEPT
                   ![c].st = "awaitRefresh", ![c].role = "initiator",
                   ![c].waitOn = n, ![c].status = status,
                   ![n] = Sent(call[n], accessToken)]
     /\ wire' = [w EXCEPT ![n] = [cred |-> cookie, srv |-> "pending",
                                  newCred |-> 0]]
     /\ origin' = [origin EXCEPT ![n] = [by |-> c, hdr |-> call[c].hdr]]
     /\ reactions' = [reactions EXCEPT ![n] = <<c>>]
     /\ UNCHANGED <<accessToken, microtasks, events, redirected>>

\* a domain request is answered 401: its token is missing or not valid
Receive401(r) ==
  /\ microtasks = <<>>
  /\ call[r].st = "sent"
  /\ call[r].hdr \notin validTokens
  /\ OnResponseError(r, Unauthorized, wire)
  /\ UNCHANGED serverVars
  /\ UNCHANGED <<appVars, engine>>

\* a domain request fails without a response (network error, timeout)
ReceiveNoResponse(r) ==
  /\ microtasks = <<>>
  /\ call[r].st = "sent"
  /\ OnResponseError(r, NoResponse, wire)
  /\ UNCHANGED serverVars
  /\ UNCHANGED <<appVars, engine>>

\* ---------------------------------------------------- the refresh call
\* the server runs the rotation engine on the credential of refresh call i
\* (the answer is lost if the client has given the call up)
ServerRefresh(i) ==
  LET id == wire[i].cred
      o == RefreshOutcome(store, id)
      new == nCreds + 1
  IN /\ microtasks = <<>>
     /\ wire[i].srv = "pending"
     /\ o = "ok" => nCreds < MaxCred
     /\ store' = RefreshStore(store, id, new)
     /\ compromised' = IF o = "SessionCompromised"
                        THEN compromised \cup {id} ELSE compromised
     /\ validTokens' = IF o = "ok" THEN validTokens \cup {TokenOf(i)}
                                   ELSE validTokens
     /\ wire' = [wire EXCEPT ![i] =
                   IF call[i].st # "sent" THEN [NoWire EXCEPT !.srv = "done"]
                   ELSE [cred |-> 0, srv |-> o,
                         newCred |-> IF o = "ok" THEN new ELSE 0]]
     /\ UNCHANGED <<accessToken, isRefreshing, refreshPromise, call,
                    reactions, microtasks, events, redirected, origin,
                    cookie>>
     /\ UNCHANGED <<appVars, engine>>

\* a refresh call whose success fulfils refreshPromise without storing the
\* new access token in the transport
RefreshResolvesWithoutStore(i) ==
  /\ microtasks = <<>>
  /\ call[i].st = "sent"
  /\ wire[i].srv = "ok"
  /\ cookie' = wire[i].newCred
  /\ call' = [call EXCEPT ![i] = Settle(call[i], "resolved", -1)]
  /\ microtasks' = reactions[i]
  /\ reactions' = Released(i)
  /\ wire' = [wire EXCEPT ![i] = [NoWire EXCEPT !.srv = "done"]]
  /\ UNCHANGED <<accessToken, isRefreshing, refreshPromise, events,
                 redirected, origin, validTokens, store, compromised>>
  /\ UNCHANGED <<appVars, engine>>

\* 2xx on the refresh call: the browser stores the new cookie, and the
\* .then of line 283 stores the new access token and fulfils refreshPromise
RefreshResponseOk(i) ==
  /\ microtasks = <<>>
  /\ call[i].st = "sent"
  /\ wire[i].srv = "ok"
  /\ accessToken' = TokenOf(i)
  /\ cookie' = wire[i].newCred
  /\ call' = [call EXCEPT ![i] = Settle(call[i], "resolved", -1)]
  /\ microtasks' = reactions[i]
  /\ reactions' = Released(i)
  /\ wire' = [wire EXCEPT ![i] = [NoWire EXCEPT !.srv = "done"]]
  /\ UNCHANGED <<isRefreshing, refreshPromise, events, redirected, origin,
                 validTokens, store, compromised>>
  /\ UNCHANGED <<appVars, engine>>

\* the server refused the refresh: 401 on the refresh call
RefreshResponseFail(i) ==
  /\ microtasks = <<>>
  /\ call[i].st = "sent"
  /\ wire[i].srv \in Refused
  /\ OnResponseError(i, Unauthorized,
                     [wire EXCEPT ![i] = [NoWire EXCEPT !.srv = "done"]])
  /\ UNCHANGED serverVars
  /\ UNCHANGED <<appVars, engine>>

\* the refresh call did not resolve within config.requestTimeout (or the
\* network failed): axios rejects it without a response
RefreshTimeout(i) ==
  /\ microtasks = <<>>
  /\ call[i].st = "sent"
  /\ OnResponseError(i, NoResponse,
                     IF wire[i].srv = "pending" THEN wire
                     ELSE [wire EXCEPT ![i] = [NoWire EXCEPT !.srv = "done"]])
  /\ UNCHANGED serverVars
  /\ UNCHANGED <<appVars, engine>>

\* continuations whose catch block does not reset the refresh state
RunMicrotaskKeepsState ==
  /\ microtasks # <<>>
  /\ LET c == Head(microtasks)
         p == call[c].waitOn
         outcome == IF p = 0 \/ call[p].st = "resolved"
                    THEN "fulfilled" ELSE "rejected"
         k == Continuation(call[c].role, outcome)
     IN /\ IF call[c].role = "initiator" /\ outcome = "fulfilled"
           THEN isRefreshing' = FALSE /\ refreshPromise' = 0
           ELSE UNCHANGED <<isRefreshing, refreshPromise>>
        /\ \/ /\ k = "retry"
              /\ call' = [call EXCEPT ![c] = Sent(call[c], accessToken)]
              /\ microtasks' = Tail(microtasks)
              /\ UNCHANGED <<accessToken, events, redirected, reactions>>
           \/ /\ k \in {"teardown", "notify"}
              /\ accessToken' = IF k = "teardown" THEN 0 ELSE accessToken
              /\ events' = [events EXCEPT ![p] = events[p] + 1]
              /\ redirected' = TRUE
              /\ call' = [call EXCEPT
                            ![c] = Settle(call[c], "rejected", call[c].status)]
              /\ microtasks' = Tail(microtasks) \o Awaiters(c)
              /\ reactions' = Released(c)
  /\ UNCHANGED <<origin, wire>>
  /\ UNCHANGED serverVars
  /\ UNCHANGED <<appVars, engine>>

\* the code after `await refreshPromise` (lines 268-275 and 291-307) of the
\* first awaiter in the microtask queue
RunMicrotask ==
  /\ microtasks # <<>>
  /\ LET c == Head(microtasks)
         p == call[c].waitOn
         outcome == IF p = 0 \/ call[p].st = "resolved"
                    THEN "fulfilled" ELSE "rejected"
         k == Continuation(call[c].role, outcome)
     IN /\ IF call[c].role = "initiator"
           THEN isRefreshing' = FALSE /\ refreshPromise' = 0
           ELSE UNCHANGED <<isRefreshing, refreshPromise>>
        /\ \/ /\ k = "retry"
              /\ call' = [call EXCEPT ![c] = Sent(call[c], accessToken)]
              /\ microtasks' = Tail(microtasks)
              /\ UNCHANGED <<accessToken, events, redirected, reactions>>
           \/ /\ k \in {"teardown", "notify"}
              /\ accessToken' = IF k = "teardown" THEN 0 ELSE accessToken
              /\ events' = [events EXCEPT ![p] = events[p] + 1]
              /\ redirected' = TRUE
              /\ call' = [call EXCEPT
                            ![c] = Settle(call[c], "rejected", call[c].status)]
              /\ microtasks' = Tail(microtasks) \o Awaiters(c)
              /\ reactions' = Released(c)
  /\ UNCHANGED <<origin, wire>>
  /\ UNCHANGED serverVars
  /\ UNCHANGED <<appVars, engine>>

\* ------------------------------------------------------- environment
\* POST /auth/login succeeded: a new rotation chain, its credential in the
\* cookie (the transport's access token is not touched by the login code)
Login ==
  /\ microtasks = <<>>
  /\ cookie = 0
  /\ nCreds < MaxCred
  /\ store' = Create(store, nCreds + 1)
  /\ cookie' = nCreds + 1
  /\ UNCHANGED <<accessToken, isRefreshing, refreshPromise, call, reactions,
                 microtasks, events, redirected, origin, wire, validTokens,
                 compromised>>
  /\ UNCHANGED <<appVars, engine>>

\* an access token reaches its expiry time (only a token that is still
\* held by the transport, carried by an unsettled call or kept in
\* sessionStorage can be observed)
InUse(t) ==
  \/ accessToken = t
  \/ \E c \in Calls : call[c].hdr = t
  \/ storage = t

ExpireToken(t) ==
  /\ microtasks = <<>>
  /\ t \in validTokens
  /\ InUse(t)
  /\ validTokens' = validTokens \ {t}
  /\ UNCHANGED <<accessToken, isRefreshing, refreshPromise, call, reactions,
                 microtasks, events, redirected, origin, wire, store, cookie,
                 compromised>>
  /\ UNCHANGED <<appVars, engine>>

\* a refresh credential reaches expires_at (the engine looks at expires_at
\* of a row that is not revoked only)
ExpireCred(c) ==
  /\ microtasks = <<>>
  /\ store[c].exists
  /\ ~store[c].expired
  /\ ~store[c].revoked
  /\ store' = [store EXCEPT ![c].expired = TRUE]
  /\ UNCHANGED <<accessToken, isRefreshing, refreshPromise, call, reactions,
                 microtasks, events, redirected, origin, wire, validTokens,
                 cookie, compromised>>
  /\ UNCHANGED <<appVars, engine>>

\* somebody holding a copy of a refresh cookie calls /auth/refresh with it
Replay(c) ==
  /\ microtasks = <<>>
  /\ store[c].exists
  /\ RefreshOutcome(store, c) = "ok" => nCreds < MaxCred
  /\ store' = RefreshStore(store, c, nCreds + 1)
  /\ compromised' = IF RefreshOutcome(store, c) = "SessionCompromised"
                     THEN compromised \cup {c} ELSE compromised
  /\ UNCHANGED <<accessToken, isRefreshing, refreshPromise, call, reactions,
                 microtasks, events, redirected, origin, wire, validTokens,
                 cookie>>
  /\ UNCHANGED <<appVars, engine>>

\* a domain request is answered with a 4xx or 5xx status other than 401
ReceiveStatus(r, status) ==
  /\ microtasks = <<>>
  /\ call[r].st = "sent"
  /\ status # Unauthorized
  /\ OnResponseError(r, status, wire)
  /\ UNCHANGED serverVars
  /\ UNCHANGED <<appVars, engine>>

\* the transport and the server it talks to
Next ==
  \/ \E r \in Req : Send(r)
  \/ \E r \in Req : ReceiveOk(r)
  \/ \E r \in Req : Receive401(r)
  \/ \E r \in Req : ReceiveNoResponse(r)
  \/ \E i \in RefreshIds : ServerRefresh(i)
  \/ \E i \in RefreshIds : RefreshResponseOk(i)
  \/ \E i \in RefreshIds : RefreshResponseFail(i)
  \/ \E i \in RefreshIds : RefreshTimeout(i)
  \/ RunMicrotask
  \/ Login
  \/ \E t \in Toks : ExpireToken(t)
  \/ \E c \in Creds : ExpireCred(c)

Spec == Init /\ [][Next]_vars

\* the transport under every kind of failed response to a domain request,
\* on a network that loses no refresh call
FailureNext ==
  \/ \E r \in Req : Send(r)
  \/ \E r \in Req : ReceiveOk(r)
  \/ \E r \in Req : Receive401(r)
  \/ \E r \in Req : ReceiveNoResponse(r)
  \/ \E r \in Req : ReceiveStatus(r, Unauthorized + 1)
  \/ \E i \in RefreshIds : ServerRefresh(i)
  \/ \E i \in RefreshIds : RefreshResponseOk(i)
  \/ \E i \in RefreshIds : RefreshResponseFail(i)
  \/ RunMicrotask
  \/ Login
  \/ \E t \in Toks : ExpireToken(t)

FailureSpec == Init /\ [][FailureNext]_vars

\* the credential store under one client request and copied cookies
StoreNext ==
  \/ \E r \in {1} : Send(r)
  \/ \E r \in {1} : ReceiveOk(r)
  \/ \E r \in {1} : Receive401(r)
  \/ \E i \in RefreshIds : ServerRefresh(i)
  \/ \E i \in RefreshIds : RefreshResponseOk(i)
  \/ \E i \in RefreshIds : RefreshResponseFail(i)
  \/ \E i \in RefreshIds : RefreshTimeout(i)
  \/ RunMicrotask
  \/ Login
  \/ \E t \in Toks : ExpireToken(t)
  \/ \E c \in Creds : ExpireCred(c)
  \/ \E c \in Creds : Replay(c)

StoreSpec == Init /\ [][StoreNext]_vars

\* ------------------------- server: refresh requests handled at once
\* rotate without the test of the revoked flag
RotateUnguarded(s, old, new) ==
  [store |-> Rotate(s, old, new), result |-> "ok"]

\* rotate as one transaction guarded by the revoked flag of the old row:
\* Conflict, and nothing written, if the row is revoked already
TryRotate(s, old, new) ==
  IF s[old].revoked THEN [store |-> s, result |-> "Conflict"]
  ELSE [store |-> Rotate(s, old, new), result |-> "ok"]

\* POST /auth/login or /auth/register handled: a new rotation chain
Issue ==
  /\ nCreds < MaxCred
  /\ store' = Create(store, nCreds + 1)
  /\ UNCHANGED <<transportVars, validTokens, cookie, compromised, appVars,
                 engine>>

\* a refresh request arrives with a credential the store issued; the
\* workers are interchangeable and taken in order
Present(w, c) ==
  /\ engine[w].pc = "idle"
  /\ \A v \in Workers : v < w => engine[v].pc # "idle"
  /\ store[c].exists
  /\ engine' = [engine EXCEPT ![w] = [pc |-> "find", cred |-> c,
                                      result |-> "none"]]
  /\ UNCHANGED <<transportVars, serverVars, appVars>>

\* the request is answered: the worker keeps the answer it gave last
Answered(o) == [pc |-> "idle", cred |-> 0, result |-> o]

\* steps 2 to 4 of the engine: findActive, the revoked test with
\* revokeChain, the expiry test
Find(w) ==
  LET id == engine[w].cred
      o == RefreshOutcome(store, id)
  IN /\ engine[w].pc = "find"
     /\ store' = IF o = "SessionCompromised" THEN RevokeChain(store, id)
                 ELSE store
     /\ engine' = [engine EXCEPT ![w] =
                     IF o = "ok" THEN [engine[w] EXCEPT !.pc = "rotate"]
                     ELSE Answered(o)]
     /\ UNCHANGED <<transportVars, validTokens, cookie, compromised,
                    appVars>>

\* step 5 of the engine: rotate
RotateStep(w) ==
  LET id == engine[w].cred
      t == TryRotate(store, id, nCreds + 1)
  IN /\ engine[w].pc = "rotate"
     /\ ~store[id].revoked => nCreds < MaxCred
     /\ store' = t.store
     /\ engine' = [engine EXCEPT ![w] = Answered(t.result)]
     /\ UNCHANGED <<transportVars, validTokens, cookie, compromised,
                    appVars>>

\* the credential store under refresh requests that race
EngineNext ==
  \/ Issue
  \/ \E w \in Workers, c \in Creds : Present(w, c)
  \/ \E w \in Workers : Find(w)
  \/ \E w \in Workers : RotateStep(w)
  \/ \E c \in Creds : ExpireCred(c)

EngineSpec == Init /\ [][EngineNext]_vars

\* --------------------------------------- client: the auth slice
\* any status of a failed response other than 401
OtherStatus == Unauthorized + 1

\* SessionManager.hasValidSession: a token is stored and its exp lies ahead
HasValidSession(stored, valid) == stored # 0 /\ stored \in valid

\* the reducers of the auth slice
Pending(a) == [a EXCEPT !.isLoading = TRUE, !.error = FALSE]

Fulfilled(a, tok) ==
  [a EXCEPT !.isLoading = FALSE, !.isAuthenticated = TRUE, !.token = tok,
            !.user = 1, !.error = FALSE]

\* a rejected reducer that leaves isLoading alone
RejectedKeepsLoading(a) ==
  [a EXCEPT !.isAuthenticated = FALSE, !.token = 0, !.user = 0,
            !.error = TRUE]

Rejected(a) ==
  [a EXCEPT !.isLoading = FALSE, !.isAuthenticated = FALSE, !.token = 0,
            !.user = 0, !.error = TRUE]

\* a logout reducer that reports an error when no session was held
LogoutReportsNoSession(a) ==
  [a EXCEPT !.user = 0, !.token = 0, !.isAuthenticated = FALSE,
            !.error = ~a.isAuthenticated]

LogoutReducer(a) ==
  [a EXCEPT !.user = 0, !.token = 0, !.isAuthenticated = FALSE,
            !.error = FALSE]

\* the promise the thunk awaits has settled: its continuation is the next
\* thing to run once the microtasks of the interceptor are done
ThunkReady ==
  \/ thunk.pc = "login" /\ call[LoginCall].st = "rejected"
  \/ thunk.pc = "me" /\ call[thunk.req].st \in {"resolved", "rejected"}

FreeReq == {r \in Req : call[r].st = "new"}

\* dispatch(loginAsync(credentials)) or dispatch(registerAsync(userData)):
\* the pending reducer, then the POST through the transport; good tells
\* whether the server will accept what was submitted
loginAsync(good) ==
  /\ microtasks = <<>>
  /\ ~ThunkReady
  /\ thunk.pc = "idle"
  /\ call[LoginCall].st # "awaitRefresh"
  /\ auth' = Pending(auth)
  /\ call' = [call EXCEPT ![LoginCall] = Sent(NewCall, accessToken)]
  /\ thunk' = [pc |-> "login", good |-> good, req |-> 0, tok |-> 0]
  /\ loggedOut' = FALSE
  /\ UNCHANGED <<accessToken, isRefreshing, refreshPromise, reactions,
                 microtasks, events, redirected, origin, wire, storage,
                 engine, fetch>>
  /\ UNCHANGED serverVars

\* 2xx on the login call: the server has created the credential and set the
\* cookie; the thunk stores the access token with SessionManager.setToken
\* and issues GET /api/users/me through the transport
LoginAccepted ==
  LET n == nCreds + 1
      r == CHOOSE q \in FreeReq : \A o \in FreeReq : q <= o
  IN /\ microtasks = <<>>
     /\ ~ThunkReady
     /\ thunk.pc = "login" /\ thunk.good
     /\ call[LoginCall].st = "sent"
     /\ nCreds < MaxCred
     /\ FreeReq # {}
     /\ store' = Create(store, n)
     /\ cookie' = n
     /\ validTokens' = validTokens \cup {LoginToken(n)}
     /\ storage' = LoginToken(n)
     /\ call' = [call EXCEPT
                   ![LoginCall] = Settle(call[LoginCall], "resolved", -1),
                   ![r] = Sent(call[r], accessToken)]
     /\ thunk' = [thunk EXCEPT !.pc = "me", !.req = r,
                               !.tok = LoginToken(n)]
     /\ UNCHANGED <<accessToken, isRefreshing, refreshPromise, reactions,
                    microtasks, events, redirected, origin, wire,
                    compromised, auth, engine, fetch, loggedOut>>

\* the server refuses the credentials submitted
LoginRefused(status) ==
  /\ microtasks = <<>>
  /\ ~ThunkReady
  /\ thunk.pc = "login" /\ ~thunk.good
  /\ call[LoginCall].st = "sent"
  /\ OnResponseError(LoginCall, status, wire)
  /\ UNCHANGED serverVars
  /\ UNCHANGED <<appVars, engine>>

\* the rest of the thunk after its await, and the reducer of the action it
\* dispatches: fulfilled once /api/users/me has answered, else the catch
\* block (SessionManager.clearToken) and the rejected reducer
ThunkResume ==
  /\ microtasks = <<>>
  /\ ThunkReady
  /\ IF thunk.pc = "me" /\ call[thunk.req].st = "resolved"
     THEN /\ auth' = Fulfilled(auth, thunk.tok)
          /\ UNCHANGED storage
     ELSE /\ auth' = Rejected(auth)
          /\ storage' = 0
  /\ thunk' = NoThunk
  /\ UNCHANGED <<transportVars, serverVars, engine, fetch, loggedOut>>

\* dispatch(logout()): the logout reducer.  It is the only logout of the
\* sources: useAuth.handleLogout dispatches logoutAsync, which the slice
\* does not define.
logout ==
  /\ microtasks = <<>>
  /\ ~ThunkReady
  /\ storage' = 0
  /\ auth' = LogoutReducer(auth)
  /\ loggedOut' = TRUE
  /\ UNCHANGED <<transportVars, serverVars, thunk, engine, fetch>>

\* dispatch(setToken(t))
setToken(t) ==
  /\ microtasks = <<>>
  /\ ~ThunkReady
  /\ auth' = [auth EXCEPT !.token = t, !.isAuthenticated = TRUE]
  /\ storage' = t
  /\ loggedOut' = FALSE
  /\ UNCHANGED <<transportVars, serverVars, thunk, engine, fetch>>

\* dispatch(restoreSession())
restoreSession ==
  /\ microtasks = <<>>
  /\ ~ThunkReady
  /\ IF HasValidSession(storage, validTokens)
     THEN /\ auth' = [auth EXCEPT !.token = storage,
                                  !.isAuthenticated = TRUE]
          /\ UNCHANGED storage
     ELSE /\ auth' = [auth EXCEPT !.token = 0, !.isAuthenticated = FALSE]
          /\ storage' = 0
  /\ loggedOut' = FALSE
  /\ UNCHANGED <<transportVars, serverVars, thunk, engine, fetch>>

\* the application: the auth slice on top of the transport and the server
AppNext ==
  \/ \E good \in BOOLEAN : loginAsync(good)
  \/ LoginAccepted
  \/ \E status \in {Unauthorized, OtherStatus} : LoginRefused(status)
  \/ ThunkResume
  \/ logout
  \/ \E t \in Toks : t \in validTokens /\ setToken(t)
  \/ restoreSession
  \/ \E r \in Req : ~ThunkReady /\ Send(r)
  \/ \E r \in Req : ~ThunkReady /\ ReceiveOk(r)
  \/ \E r \in Req : ~ThunkReady /\ Receive401(r)
  \/ \E i \in RefreshIds : ~ThunkReady /\ ServerRefresh(i)
  \/ \E i \in RefreshIds : ~ThunkReady /\ RefreshResponseOk(i)
  \/ \E i \in RefreshIds : ~ThunkReady /\ RefreshResponseFail(i)
  \/ RunMicrotask
  \/ \E t \in Toks : ~ThunkReady /\ ExpireToken(t)
  \/ \E c \in Creds : ~ThunkReady /\ ExpireCred(c)

AppSpec == Init /\ [][AppNext]_vars

\* ------------------------------------------- fetchCurrentUserAsync
\* the reducers of fetchCurrentUserAsync
FetchPending(a) == [a EXCEPT !.isLoading = TRUE]

\* a fulfilled reducer that does not store the user
FetchFulfilledWithoutUser(a) ==
  [a EXCEPT !.isLoading = FALSE, !.isAuthenticated = TRUE]

FetchFulfilled(a) ==
  [a EXCEPT !.isLoading = FALSE, !.user = 1, !.isAuthenticated = TRUE]

FetchRejected(a) ==
  [a EXCEPT !.isLoading = FALSE, !.isAuthenticated = FALSE, !.token = 0,
            !.user = 0, !.error = TRUE]

\* the GET /api/users/me the thunk awaits has settled
FetchReady ==
  fetch.pc = "me" /\ call[fetch.req].st \in {"resolved", "rejected"}

\* dispatch(fetchCurrentUserAsync()): the pending reducer, then
\* GET /api/users/me through the transport
fetchCurrentUserAsync ==
  LET r == CHOOSE q \in FreeReq : \A o \in FreeReq : q <= o
  IN /\ microtasks = <<>>
     /\ ~ThunkReady
     /\ ~FetchReady
     /\ fetch.pc = "idle"
     /\ FreeReq # {}
     /\ auth' = FetchPending(auth)
     /\ call' = [call EXCEPT ![r] = Sent(call[r], accessToken)]
     /\ fetch' = [pc |-> "me", req |-> r]
     /\ loggedOut' = FALSE
     /\ UNCHANGED <<accessToken, isRefreshing, refreshPromise, reactions,
                    microtasks, events, redirected, origin, wire, storage,
                    thunk, engine>>
     /\ UNCHANGED serverVars

\* the rest of the thunk after its await and the reducer of the action it
\* dispatches: fulfilled with the user, else the catch block
\* (SessionManager.clearToken) and the rejected reducer
FetchResume ==
  /\ microtasks = <<>>
  /\ FetchReady
  /\ IF call[fetch.req].st = "resolved"
     THEN /\ auth' = FetchFulfilled(auth)
          /\ UNCHANGED storage
     ELSE /\ auth' = FetchRejected(auth)
          /\ storage' = 0
  /\ fetch' = NoFetch
  /\ UNCHANGED <<transportVars, serverVars, engine, thunk, loggedOut>>

\* the auth slice with all its thunks, on a network that loses nothing
SliceNext ==
  \/ \E good \in BOOLEAN : ~FetchReady /\ loginAsync(good)
  \/ ~FetchReady /\ LoginAccepted
  \/ \E status \in {Unauthorized, OtherStatus} :
       ~FetchReady /\ LoginRefused(status)
  \/ ThunkResume
  \/ fetchCurrentUserAsync
  \/ FetchResume
  \/ ~FetchReady /\ logout
  \/ \E t \in Toks : t \in validTokens /\ ~FetchReady /\ setToken(t)
  \/ ~FetchReady /\ restoreSession
  \/ \E r \in Req : ~ThunkReady /\ ~FetchReady /\ ReceiveOk(r)
  \/ \E r \in Req : ~ThunkReady /\ ~FetchReady /\ Receive401(r)
  \/ \E i \in RefreshIds : ~ThunkReady /\ ~FetchReady /\ ServerRefresh(i)
  \/ \E i \in RefreshIds :
       ~ThunkReady /\ ~FetchReady /\ RefreshResponseOk(i)
  \/ \E i \in RefreshIds :
       ~ThunkReady /\ ~FetchReady /\ RefreshResponseFail(i)
  \/ RunMicrotask

SliceSpec == Init /\ [][SliceNext]_vars

TypeOK ==
  /\ accessToken \in {0} \cup Toks
  /\ isRefreshing \in BOOLEAN
  /\ refreshPromise \in {0} \cup RefreshIds
  /\ cookie \in {0} \cup Creds
  /\ \A c \in Calls : call[c].st \in {"new", "sent", "awaitRefresh",
                                      "resolved", "rejected"}

\* ===================================================== claims C1 .. C10

Outstanding == {i \in RefreshIds : call[i].st = "sent"}

\* C1: single flight.  In every reachable state at most one refresh call of
\* the transport is outstanding, and a request whose 401 arrived while one
\* was in flight waits on that call (or, the call having just settled, is
\* about to be resumed) instead of having started a second one.
C1_SingleFlight ==
  /\ Cardinality(Outstanding) <= 1
  /\ \A r \in Req :
       call[r].st = "awaitRefresh" /\ call[r].role = "waiter" =>
         /\ call[r].waitOn \in RefreshIds
         /\ origin[call[r].waitOn].by # r
         /\ \/ Outstanding = {call[r].waitOn}
            \/ \E k \in 1..Len(microtasks) : microtasks[k] = r

C1_Witness ==
  \E i \in RefreshIds, r \in Req :
    /\ call[i].st = "sent"
    /\ call[r].st = "awaitRefresh" /\ call[r].role = "waiter"
    /\ call[r].waitOn = i

\* C2: the requests that were sent with one and the same expired access
\* token and are all answered 401 cause exactly one refresh call: no two
\* refresh calls are started by the 401s of two different requests that
\* carried the same token (stated for the sessions that were not torn down
\* by a failed refresh in between).
C2_OneRefreshPerExpiry ==
  ~redirected =>
    \A i, j \in RefreshIds :
      (i # j /\ origin[i].hdr > 0 /\ origin[i].hdr = origin[j].hdr)
        => origin[i].by = origin[j].by

\* C3: a request is re-sent at most once because of refresh, so it goes out
\* on the network at most twice.
C3_ResentAtMostOnce == \A r \in Req : call[r].sends <= 2

\* C4: a request re-sent after a successful refresh carries the access
\* token that refresh returned, never the token it failed with.
C4_ReplayCarriesNewToken ==
  [][\A r \in Req :
       (call[r].st = "awaitRefresh" /\ call'[r].st = "sent") =>
         /\ call[r].waitOn # 0 => call'[r].hdr = TokenOf(call[r].waitOn)
         /\ call[r].hdr # 0 => call'[r].hdr # call[r].hdr]_vars

\* C5: no recursion.  A failure of the refresh call itself is only passed
\* on: the refresh call never enters refresh handling (it neither waits for
\* a refresh nor is re-sent) and no refresh call is started by the failure
\* of a refresh call.
C5_NoRefreshRecursion ==
  \A i \in RefreshIds :
    /\ call[i].st # "awaitRefresh"
    /\ call[i].role = "none"
    /\ call[i].sends <= 1
    /\ origin[i].by \notin RefreshIds

C5_Witness ==
  \E i \in RefreshIds :
    call[i].st = "rejected" /\ call[i].status = Unauthorized

\* the awaiter r is resumed in this step after the refresh it awaited failed
ResumedAfterFailure(r) ==
  /\ call[r].st = "awaitRefresh"
  /\ call[r].waitOn # 0
  /\ call[call[r].waitOn].st = "rejected"
  /\ call'[r] # call[r]

\* no awaiter is left behind: between two tasks every call that awaits a
\* refresh awaits one that is still in flight
NoneLeftWaiting ==
  microtasks = <<>> =>
    \A c \in Calls : call[c].st = "awaitRefresh" =>
      call[c].waitOn # 0 /\ call[call[c].waitOn].st = "sent"

C7_OneEventPerFailure == \A i \in RefreshIds : events[i] <= 1

TimedOut(i) == call[i].st = "rejected" /\ call[i].status = NoResponse

\* C9: a refresh call that gets no response within the timeout is a refresh
\* failure: the step that times it out hands every awaiter to the microtask
\* queue, every awaiter is rejected without being re-sent, the initiator
\* tears the session down (token cleared, RefreshState reset, redirect to
\* the login page) and no refresh call is started on the way.
C9_TimeoutIsFailure ==
  /\ []NoneLeftWaiting
  /\ [][\A i \in RefreshIds :
          (call[i].st = "sent" /\ TimedOut(i)') =>
             /\ microtasks' = reactions[i]
             /\ nRefresh' = nRefresh]_vars
  /\ [][\A r \in Req :
          (ResumedAfterFailure(r) /\ TimedOut(call[r].waitOn)) =>
             /\ call'[r].st = "rejected"
             /\ call'[r].sends = call[r].sends
             /\ nRefresh' = nRefresh
             /\ redirected'
             /\ call[r].role = "initiator" =>
                  /\ accessToken' = 0
                  /\ ~isRefreshing'
                  /\ refreshPromise' = 0]_vars

C9_Witness ==
  \E i \in RefreshIds :
    /\ TimedOut(i)
    /\ microtasks = <<>>
    /\ events[i] >= 2
    /\ \A r \in Req : call[r].st = "rejected"
    /\ accessToken = 0 /\ redirected

\* C10: replay detection.  A refresh with a credential whose row is revoked
\* is answered SessionCompromised; from then on every credential of that
\* rotation chain is revoked and stays as it is, so that no later refresh
\* with a credential of the chain, its newest included, is honoured.
C10_ReplayDetection ==
  /\ [](\A c \in compromised : \A d \in Chain(store, c) : store[d].revoked)
  /\ [][\A i \in RefreshIds :
          (/\ wire[i].srv = "pending" /\ wire'[i].srv # "pending"
           /\ FindActive(store, wire[i].cred)
           /\ store[wire[i].cred].revoked) =>
             /\ wire[i].cred \in compromised'
             /\ call[i].st = "sent" => wire'[i].srv = "SessionCompromised"]_vars
  /\ [][\A c \in compromised : \A d \in Chain(store, c) :
          /\ store'[d] = store[d]
          /\ Chain(store', c) = Chain(store, c)]_vars

C10_Witness ==
  \E c, d \in compromised :
    /\ store[c].successor = d
    /\ store[d].successor = 0
    /\ \E i \in RefreshIds : wire[i].srv = "SessionCompromised"

\* ==================================================== claims C11 .. C20

Active(s, d) == s[d].exists /\ ~s[d].revoked /\ ~s[d].expired

\* C11: in every reachable state of the credential store each rotation
\* chain holds at most one active (not revoked, not expired) credential, and
\* a credential that has a successor is revoked: a rotated credential and
\* its successor are never both valid, also while refresh requests race.
C11_OneActivePerChain ==
  /\ \A c \in Creds : store[c].exists =>
       Cardinality({d \in Chain(store, c) : Active(store, d)}) <= 1
  /\ \A c \in Creds : store[c].successor # 0 => store[c].revoked

C11_Witness ==
  \E w \in Workers :
    /\ engine[w].pc = "rotate"
    /\ store[engine[w].cred].successor # 0
    /\ Active(store, store[engine[w].cred].successor)
    /\ \E c \in Creds : Active(store, c) /\ c \notin Chain(store, engine[w].cred)

\* worker w completes a rotate in this step, with success
Rotated(w) ==
  /\ engine[w].pc = "rotate"
  /\ engine'[w].pc = "idle"
  /\ engine'[w].result = "ok"

\* C12: rotation postcondition.  The step of a successful rotate(old -> new)
\* finds old not revoked and without successor and new not yet existing, and
\* leaves old revoked, old.successor = new and new existing and not revoked;
\* no other row is written.
C12_RotationPostcondition ==
  [][\A w \in Workers : Rotated(w) =>
       LET old == engine[w].cred
           new == store'[old].successor
       IN /\ ~store[old].revoked /\ store[old].successor = 0
          /\ new \in Creds /\ ~store[new].exists
          /\ store'[old].revoked
          /\ store'[new].exists /\ ~store'[new].revoked
          /\ store'[new].successor = 0
          /\ \A d \in Creds \ {old, new} : store'[d] = store[d]]_vars

C12_Witness ==
  \E w \in Workers, c, d \in Creds :
    /\ engine[w].result = "ok"
    /\ store[c].revoked /\ store[c].successor = d
    /\ store[d].exists /\ ~store[d].revoked /\ ~store[d].expired

\* C13: of the refresh requests that race to rotate one credential at most
\* one succeeds.  A rotate that finds the credential revoked fails with
\* Conflict and writes nothing; a rotate succeeds only on a credential that
\* is not revoked and leaves it revoked; a revoked credential stays revoked
\* and keeps its successor.  So no second rotate of it can succeed and no
\* second successor is created.
C13_OneRotateWins ==
  [][/\ \A w \in Workers :
          (engine[w].pc = "rotate" /\ engine'[w].pc = "idle") =>
             IF store[engine[w].cred].revoked
             THEN engine'[w].result = "Conflict" /\ store' = store
             ELSE /\ engine'[w].result = "ok"
                  /\ store'[engine[w].cred].revoked
     /\ \A c \in Creds : store[c].revoked =>
          /\ store'[c].revoked
          /\ store'[c].successor = store[c].successor]_vars

C13_Witness ==
  \E v, w \in Workers :
    /\ engine[v].pc = "idle" /\ engine[v].result = "ok"
    /\ engine[w].pc = "idle" /\ engine[w].result = "Conflict"
    /\ nCreds = 2
    /\ store[1].revoked /\ store[1].successor = 2
    /\ Active(store, 2)

\* refresh call i is answered by the server in this step
Handled(i) == wire[i].srv = "pending" /\ wire'[i].srv # "pending"

\* C14: a refresh with an unknown identifier (or without cookie) is refused
\* with SessionInvalid, one with a known credential that is not revoked but
\* expired with SessionExpired; the step that refuses it leaves every row of
\* the store as it was and issues neither an access token nor a credential.
C14_RefusalWritesNothing ==
  [][\A i \in RefreshIds : Handled(i) =>
       LET id == wire[i].cred
           unknown == ~FindActive(store, id)
           lapsed == ~unknown /\ ~store[id].revoked /\ store[id].expired
       IN (unknown \/ lapsed) =>
            /\ store' = store
            /\ validTokens' = validTokens
            /\ wire'[i].newCred = 0
            /\ call[i].st = "sent" =>
                 wire'[i].srv = IF unknown THEN "SessionInvalid"
                                ELSE "SessionExpired"]_vars

C14_Witness ==
  \E i \in RefreshIds :
    /\ wire[i].srv = "SessionExpired"
    /\ cookie # 0
    /\ store[cookie].expired /\ ~store[cookie].revoked
    /\ store[cookie].successor = 0
    /\ validTokens = {}

\* the login or registration call is answered 2xx in this step
LoginSucceeds == thunk.pc = "login" /\ thunk'.pc = "me"

\* C15: after a successful login or registration the transport holds the
\* access token that was returned, and the next request sent through it
\* (GET /api/users/me of the thunk) carries that token.
C15_TransportHoldsLoginToken ==
  [][LoginSucceeds =>
       /\ accessToken' = thunk'.tok
       /\ call'[thunk'.req].hdr = thunk'.tok]_vars

\* C16: logout destroys the access token of the transport: the step of a
\* logout leaves the transport without access token.
C16_LogoutClearsTransport ==
  [][logout => accessToken' = 0]_vars

\* a session-expired event is dispatched in this step
SessionExpiredDispatched == \E i \in RefreshIds : events'[i] > events[i]

\* C17: a terminal refresh failure tears the client down: with no login in
\* flight, once the continuations of the failed refresh have run (no
\* microtask and no thunk continuation is left) the transport holds no
\* token, the auth state is not authenticated, has no user and no token, and
\* no token is stored, whichever request had started the refresh.
C17_FailureClearsIdentity ==
  [][(/\ SessionExpiredDispatched
      /\ thunk.pc = "idle"
      /\ microtasks' = <<>> /\ ~ThunkReady') =>
       /\ accessToken' = 0
       /\ ~auth'.isAuthenticated
       /\ auth'.user = 0
       /\ auth'.token = 0
       /\ storage' = 0]_vars

\* C18: the access token is held in process memory only: in no reachable
\* state does sessionStorage hold an access token.
C18_TokenNeverStored == storage = 0

\* C19: logout revokes the active refresh credential on the server (POST
\* /auth/logout, which also clears the cookie) and clears the client state:
\* after the step of a logout the credential of the cookie is revoked, the
\* cookie is gone, no token is stored and the auth state is anonymous.
C19_LogoutRevokesCredential ==
  [][logout =>
       /\ cookie # 0 => store'[cookie].revoked
       /\ cookie' = 0
       /\ storage' = 0
       /\ ~auth'.isAuthenticated /\ auth'.user = 0 /\ auth'.token = 0]_vars

\* the login call of refused credentials is answered in this step
RefusalArrives ==
  /\ thunk.pc = "login" /\ ~thunk.good
  /\ call[LoginCall].st = "sent"
  /\ call'[LoginCall].st # "sent"

\* the thunk of refused credentials settles in this step
RefusalSurfaces == thunk.pc = "login" /\ ~thunk.good /\ thunk'.pc = "idle"

\* C20: a login or registration refused for bad credentials is surfaced as an
\* error and changes nothing else: the refusal rejects the call without
\* starting or joining a refresh, no session-expired event follows from it,
\* and when the thunk settles the error is set while the access token, the
\* stored token, the authenticated flag, the user and the token of the auth
\* state are what they were.
C20_RefusalChangesNothing ==
  /\ [][RefusalArrives =>
          /\ call'[LoginCall].st = "rejected"
          /\ nRefresh' = nRefresh
          /\ events' = events]_vars
  /\ [][RefusalSurfaces =>
          /\ auth'.error
          /\ accessToken' = accessToken
          /\ storage' = storage
          /\ auth'.isAuthenticated = auth.isAuthenticated
          /\ auth'.user = auth.user
          /\ auth'.token = auth.token]_vars

\* ------------------------------------------------------------------
\* the claims C21 .. C30

\* call c is re-sent in this step by the code after `await refreshPromise`
Replayed(c) == call[c].st = "awaitRefresh" /\ call'[c].st = "sent"

\* C24: on refresh success the new access token is stored in the transport
\* before any request is re-sent: every replay, by the initiator or by a
\* waiter, is issued after the refresh it awaited has resolved and in a
\* state where the transport holds the token that refresh returned, not the
\* token it held before.
C24_TokenStoredBeforeReplay ==
  [][\A c \in Calls : Replayed(c) =>
        /\ call[c].waitOn \in RefreshIds
        /\ call[call[c].waitOn].st = "resolved"
        /\ accessToken = TokenOf(call[c].waitOn)
        /\ accessToken # origin[call[c].waitOn].hdr
        /\ accessToken' = accessToken]_vars

\* the initiator has been re-sent and a waiter is about to be
C24_Witness ==
  \E c, d \in Req :
    /\ call[c].st = "sent" /\ call[c].sends = 2
    /\ call[d].st = "awaitRefresh" /\ call[d].role = "waiter"
    /\ microtasks = <<d>>
    /\ accessToken = TokenOf(call[d].waitOn)

\* C25: isRefreshing is true exactly when refreshPromise is non-null; the
\* pair is created only by a 401 on a request that is not the refresh call;
\* between tasks isRefreshing is true exactly while the refresh call
\* refreshPromise stands for is unsettled, so a refresh that has resolved or
\* failed leaves isRefreshing false and refreshPromise null.
C25_RefreshStatePaired ==
  /\ isRefreshing <=> refreshPromise # 0
  /\ refreshPromise # 0 =>
       /\ refreshPromise \in RefreshIds
       /\ origin[refreshPromise].by \in Calls
       /\ ~IsRefreshUrl(Url(origin[refreshPromise].by))
       /\ call[origin[refreshPromise].by].status = Unauthorized
  /\ microtasks = <<>> =>
       /\ isRefreshing => call[refreshPromise].st = "sent"
       /\ \A i \in RefreshIds : call[i].st = "sent" => refreshPromise = i

\* one refresh has resolved and a later one has failed; the state is clear
C25_Witness ==
  /\ \E i, j \in RefreshIds :
       i < j /\ call[i].st = "resolved" /\ call[j].st = "rejected"
  /\ microtasks = <<>>
  /\ ~isRefreshing
  /\ refreshPromise = 0

\* the interceptor takes a failure other than a 401 of domain request r off
\* the network in this step (every branch records the status)
FailureArrives(r) ==
  /\ call[r].st = "sent"
  /\ call'[r].st # "sent"
  /\ call'[r].status \notin {Unauthorized, -1}

\* C26: a failure other than 401 on a domain request (no response, or a
\* 4xx / 5xx status) is rejected to the caller as an ApiError; the access
\* token, isRefreshing and refreshPromise are unchanged, no refresh call is
\* started, no request joins a refresh, and no notification is emitted.
C26_OtherFailuresPassThrough ==
  [][\A r \in Req : FailureArrives(r) =>
        /\ call'[r].st = "rejected"
        /\ call'[r].err = "ApiError"
        /\ accessToken' = accessToken
        /\ isRefreshing' = isRefreshing
        /\ refreshPromise' = refreshPromise
        /\ nRefresh' = nRefresh
        /\ reactions' = reactions
        /\ microtasks' = microtasks
        /\ events' = events
        /\ redirected' = redirected
        /\ \A q \in Calls \ {r} : call'[q] = call[q]]_vars

\* a request has failed with a status other than 401 while a refresh
\* started by another request is in flight
C26_Witness ==
  /\ \E r \in Req :
       call[r].st = "rejected" /\ call[r].status = Unauthorized + 1
  /\ isRefreshing
  /\ \E i \in RefreshIds : call[i].st = "sent"

\* C27: a client that presents on every refresh the credential most
\* recently delivered to it (the cookie; nobody else holds a copy) is never
\* answered SessionCompromised, also when a refresh call timed out or its
\* response was lost after the server had rotated the credential.
C27_HonestClientNeverCompromised ==
  /\ compromised = {}
  /\ \A i \in RefreshIds : wire[i].srv # "SessionCompromised"

\* the lifecycle state Anonymous
Anonymous(a) == ~a.isAuthenticated /\ a.user = 0 /\ a.token = 0

\* C21: restoreSession attempts a silent refresh using the refresh cookie:
\* dispatched with no valid access token stored and a valid refresh
\* credential in the cookie, it leaves a refresh call under way (or the
\* state authenticated by it), so that the lifecycle can end Authenticated.
C21_RestoreAttemptsRefresh ==
  [][(/\ restoreSession
      /\ ~HasValidSession(storage, validTokens)
      /\ cookie # 0
      /\ Active(store, cookie))
       => (isRefreshing' \/ nRefresh' > nRefresh
           \/ auth'.isAuthenticated)]_vars

\* the login or registration thunk is dispatched / settles in this step
Submitted == thunk.pc = "idle" /\ thunk'.pc = "login"

Settled == thunk.pc # "idle" /\ thunk'.pc = "idle"

\* what was submitted has been accepted and GET /api/users/me has answered
Succeeded == thunk.pc = "me" /\ call[thunk.req].st = "resolved"

\* C22: submitting a login or a registration enters Authenticating
\* (isLoading true, error cleared); when the thunk settles the state leaves
\* Authenticating (isLoading false): on success to Authenticated
\* (isAuthenticated true, user and token set, no error), on failure to
\* Anonymous (isAuthenticated false, user and token null) with an error.
C22_LoginLifecycle ==
  /\ [][Submitted => auth'.isLoading /\ ~auth'.error]_vars
  /\ [][Settled /\ Succeeded =>
          /\ ~auth'.isLoading
          /\ auth'.isAuthenticated
          /\ auth'.user = 1
          /\ auth'.token = thunk.tok /\ thunk.tok # 0
          /\ ~auth'.error]_vars
  /\ [][Settled /\ ~Succeeded =>
          /\ ~auth'.isLoading
          /\ Anonymous(auth')
          /\ auth'.error]_vars

\* a login has succeeded and its thunk has settled
C22_Witness ==
  /\ thunk.pc = "idle"
  /\ fetch.pc = "idle"
  /\ call[LoginCall].st = "resolved"
  /\ \E r \in Req : call[r].st = "new"
  /\ auth.isAuthenticated /\ auth.user = 1 /\ auth.token # 0
  /\ ~auth.isLoading /\ ~auth.error

\* C23: logout is idempotent: in every state the logout reducer is defined
\* and yields Anonymous, applied twice it yields what it yields once, and
\* applied to a state that is already logged out (Anonymous, no token
\* stored) it changes nothing but the error it clears; the step of the
\* logout action leaves such a state with no token stored.
C23_LogoutIdempotent ==
  /\ [](/\ Anonymous(LogoutReducer(auth))
        /\ LogoutReducer(LogoutReducer(auth)) = LogoutReducer(auth)
        /\ (Anonymous(auth) /\ storage = 0) =>
              LogoutReducer(auth) = [auth EXCEPT !.error = FALSE])
  /\ [][logout =>
          /\ Anonymous(auth')
          /\ storage' = 0
          /\ LogoutReducer(auth') = auth']_vars

\* logout has been dispatched on a session a login had established
C23_Witness ==
  /\ loggedOut
  /\ Anonymous(auth)
  /\ storage = 0
  /\ call[LoginCall].st = "resolved"
  /\ thunk.pc = "idle"

\* no auth thunk (loginAsync, registerAsync, fetchCurrentUserAsync) is in
\* flight
NoThunkInFlight == thunk.pc = "idle" /\ fetch.pc = "idle"

\* C28: whenever no auth thunk is in flight, the token of the auth state
\* equals the token SessionManager holds, after any interleaving of login,
\* register, fetchCurrentUser, setToken, restoreSession and logout.
C28_StateTokenIsStoredToken == NoThunkInFlight => auth.token = storage

\* C29: once logout has been dispatched the auth state stays
\* unauthenticated until a login, register, fetchCurrentUser, setToken or
\* restoreSession is initiated after it; a thunk already in flight when
\* logout was dispatched does not re-authenticate when it is fulfilled.
C29_LogoutIsFinal == loggedOut => ~auth.isAuthenticated

\* C30: isLoading is true exactly while at least one of loginAsync,
\* registerAsync and fetchCurrentUserAsync is in flight, also when several
\* overlap.
C30_LoadingTracksThunks == auth.isLoading <=> ~NoThunkInFlight

====
